---- MODULE Spec2Model ----
(***************************************************************************)
(* Model of the Terabox link pipeline (src/src/handlers/download.py), of   *)
(* its caller, the message handlers of src/src/handlers/bot.py, and of the *)
(* user store they consult (src/src/database.py).                          *)
(*                                                                         *)
(* Strings are sequences of tokens.  The characters the code treats        *)
(* specially (backslash, slash, colon, quote, ...) are tokens of their     *)
(* own; every other token is an atom holding none of them.  None and the   *)
(* empty string, both falsy in Python, are the empty sequence.             *)
(*                                                                         *)
(* File system: POSIX semantics.  A path names an inode or nothing; an     *)
(* open handle keeps writing to its inode after the path was unlinked.     *)
(***************************************************************************)
EXTENDS Integers, Sequences, FiniteSets, TLC

VARIABLES
    \* ---- fetch_stream_url and its caller
    rpc,                \* position in fetch_stream_url / its caller
    attempt,            \* loop variable of "for attempt in range(2)"
    anti_bot_detected,  \* local flag of fetch_stream_url
    api_requests,       \* GETs issued to the resolution API
    api_responses,      \* API responses received
    page_requests,      \* GETs issued to the source page
    api_resp,           \* last API response received
    page_resp,          \* source page response received
    ret,                \* what fetch_stream_url returned
    via,                \* the return statement that produced ret
    observed,           \* what handle_link saw of the link
    \* ---- download_video, per invocation
    pc,                 \* position in download_video
    stream_url,         \* argument
    filename,           \* argument; file_path = DOWNLOAD_DIR/filename
    stream_status,      \* response.status of the stream response, 0 before it
    content_length,     \* response.content_length of the stream response
    body_size,          \* bytes the upstream sends when nothing interrupts it
    body_left,          \* bytes of the body not yet received
    fd,                 \* inode the invocation's "with open(...)" holds open, 0 if none
    downloaded_size,    \* bytes written through fd (the handle's offset)
    streamed_all,       \* the "async for" loop ran to the end of the body
    opens,              \* how often the invocation (or its ffmpeg) opened file_path
    file_size,          \* local file_size: os.path.getsize(file_path)
    result,             \* return value: file_path or None
    reason,             \* the path through the code that produced result
    prior,              \* invocations that had returned when this one started
    \* ---- the ffmpeg subprocess of an invocation
    ff,                 \* "none", "probing" (output not opened), "writing", "exited"
    ff_ino,             \* inode ffmpeg has open as its output, 0 if none
    ff_off,             \* ffmpeg's write offset
    ff_writes,          \* writes ffmpeg has made
    returncode,         \* process.returncode
    \* ---- the download directory
    fs,                 \* path -> inode, 0 when nothing is at the path
    isize,              \* inode -> size in bytes
    \* ---- extract_terabox_url and process_terabox_link
    ppc,                \* position in process_terabox_link / extract_terabox_url
    input_url,          \* argument "url"
    terabox_url,        \* what extract_terabox_url returned
    fetch_arg,          \* the URL process_terabox_link gave fetch_stream_url
    outcome,            \* what process_terabox_link returned
    \* ---- the user store (one user) and the message handlers
    connected,          \* db.users_collection is set (connect() succeeded)
    now,                \* datetime.utcnow(), in days
    user_doc,           \* the user's document in users_collection, NoUser without one
    history_adds,       \* entries add_to_history has stored; the n-th carries timestamp n
    bpc,                \* "boot", "idle", or the handler's position in a message
    messages,           \* messages with links the handlers were given
    links,              \* len(links) of the message in hand (or the last one)
    link_no,            \* links of that message handed to process_terabox_link
    file_exists,        \* the file of the link in hand (or the last one) exists
    file_bytes,         \* os.path.getsize(file_path) of that file, 0 without one
    link_result,        \* how the handler left the link in hand (or the last one)
    quota_exceeded,     \* what the last check_quota_exceeded returned
    daily_limit,        \* its local daily_limit
    current_count,      \* its local current_count
    checked_at,         \* the time of that call
    last_denied,        \* the time of the first refusal since the last admitted message
    handed_today        \* links handed to process_terabox_link since the day began

rvars == <<rpc, attempt, anti_bot_detected, api_requests, api_responses,
           page_requests, api_resp, page_resp, ret, via, observed>>

cvars == <<pc, stream_url, filename, stream_status, content_length, body_size, body_left, fd,
           downloaded_size, streamed_all, opens, file_size, result, reason, prior>>

pvars == <<ff, ff_ino, ff_off, ff_writes, returncode>>

dvars == <<fs, isize>>

fvars == <<cvars, pvars, dvars>>

nvars == <<ppc, input_url, terabox_url, fetch_arg, outcome>>

bvars == <<connected, now, user_doc, history_adds, bpc, messages, links, link_no,
           file_exists, file_bytes, link_result, quota_exceeded, daily_limit,
           current_count, checked_at, last_denied, handed_today>>

vars == <<rvars, fvars, nvars, bvars>>

(***************************************************************************)
(* Bounds of the model.                                                    *)
(***************************************************************************)
MaxFields == 2

\* writes one ffmpeg process makes to its output
MaxFfWrites == 2

\* messages with links the handlers are given in a run
MaxMessages == 7

\* calls of add_to_history in a run
MaxHistoryAdds == 52

(***************************************************************************)
(* Strings.                                                                *)
(***************************************************************************)
None == <<>>

BS == "\\"

\* str.replace('\\/', '/')
RECURSIVE UnescapeSlash(_)
UnescapeSlash(s) ==
    IF Len(s) = 0 THEN <<>>
    ELSE IF Len(s) >= 2 /\ s[1] = BS /\ s[2] = "/"
         THEN <<"/">> \o UnescapeSlash(SubSeq(s, 3, Len(s)))
         ELSE <<s[1]>> \o UnescapeSlash(Tail(s))

\* str.replace('\\:', ':')
RECURSIVE UnescapeColon(_)
UnescapeColon(s) ==
    IF Len(s) = 0 THEN <<>>
    ELSE IF Len(s) >= 2 /\ s[1] = BS /\ s[2] = ":"
         THEN <<":">> \o UnescapeColon(SubSeq(s, 3, Len(s)))
         ELSE <<s[1]>> \o UnescapeColon(Tail(s))

\* re.sub(r'[<>:\"/\\|?*]', '', filename)
IllegalChars == {"<", ">", ":", "\"", "/", BS, "|", "?", "*"}

RECURSIVE StripIllegal(_)
StripIllegal(s) ==
    IF Len(s) = 0 THEN <<>>
    ELSE IF s[1] \in IllegalChars THEN StripIllegal(Tail(s))
         ELSE <<s[1]>> \o StripIllegal(Tail(s))

MediaExtensions == {".mp4", ".mkv", ".avi", ".mov"}

EndsWithMediaExt(s) == Len(s) > 0 /\ s[Len(s)] \in MediaExtensions

\* index of the first token of s that is in set T, Len(s)+1 when there is none
RECURSIVE FirstIn(_, _, _)
FirstIn(s, T, i) ==
    IF i > Len(s) THEN i
    ELSE IF s[i] \in T THEN i ELSE FirstIn(s, T, i + 1)

\* urlparse(url).path for scheme://netloc/path?query#fragment
UrlPath(u) ==
    LET cut   == SubSeq(u, 1, FirstIn(u, {"?", "#"}, 1) - 1)
        rest  == IF Len(cut) >= 4 /\ cut[2] = ":" /\ cut[3] = "/" /\ cut[4] = "/"
                 THEN SubSeq(cut, 5, Len(cut))
                 ELSE cut
        slash == FirstIn(rest, {"/"}, 1)
    IN  IF rest = cut THEN cut ELSE SubSeq(rest, slash, Len(rest))

\* os.path.basename: what follows the last slash
RECURSIVE Basename(_)
Basename(p) ==
    LET i == FirstIn(p, {"/"}, 1)
    IN  IF i > Len(p) THEN p ELSE Basename(SubSeq(p, i + 1, Len(p)))

DefaultFilename == <<"terabox_video", ".mp4">>

\* the "x or y" of Python on strings
OrElse(a, b) == IF a # <<>> THEN a ELSE b

(***************************************************************************)
(* Response bodies.  A body is described by what the code's searches see   *)
(* in it: the anti-bot markers, the JSON document it parses to, the        *)
(* "key":"value" fields in text order, and the first URL each of the       *)
(* m3u8 and mp4 patterns finds.                                            *)
(***************************************************************************)
QualityKeys == {"360p", "480p", "720p", "1080p", "playUrl"}

\* an escaped URL as the player page embeds it: https:\/\/cdn.example\/v<key>.mp4
EscUrl(k) == <<"https", ":", BS, "/", BS, "/", "cdn.example", BS, "/", "v", k, ".mp4">>

\* the same with the colon escaped too: https\:\/\/cdn.example\/v<key>.mp4
EscColonUrl(k) ==
    <<"https", BS, ":", BS, "/", BS, "/", "cdn.example", BS, "/", "v", k, ".mp4">>

Fields == { [key |-> k, val |-> v] : k \in QualityKeys, v \in {<<>>} } \cup
          { [key |-> k, val |-> EscUrl(k)] : k \in QualityKeys }

RECURSIVE SeqsUpTo(_, _)
SeqsUpTo(S, n) ==
    IF n = 0 THEN {<<>>}
    ELSE LET shorter == SeqsUpTo(S, n - 1)
         IN  shorter \cup { Append(q, x) : q \in shorter, x \in S }

FieldSeqs == SeqsUpTo(Fields, MaxFields)

PlainM3u8 == <<"https", ":", "/", "/", "cdn.example", "/", "hls", "/", "index", ".m3u8">>
PlainMp4  == <<"https", ":", "/", "/", "cdn.example", "/", "video", ".mp4">>

NotJson == [isdict |-> FALSE, top |-> <<>>, nested_isdict |-> FALSE, nested |-> <<>>]

\* what "await response.json()" gives (lines 100-104): NotJson when it raises,
\* on a body that is not JSON or not served with a JSON content type
JsonDocs ==
    { NotJson,
      [isdict |-> TRUE, top |-> [status |-> <<"error">>],
       nested_isdict |-> FALSE, nested |-> <<>>],
      [isdict |-> TRUE, top |-> [url |-> PlainMp4, title |-> <<"My Clip">>],
       nested_isdict |-> FALSE, nested |-> <<>>],
      [isdict |-> TRUE, top |-> [status |-> <<"ok">>],
       nested_isdict |-> TRUE, nested |-> [play_url |-> PlainM3u8]],
      [isdict |-> TRUE,
       top |-> [url |-> <<>>, video_url |-> PlainMp4, stream_url |-> PlainM3u8,
                title |-> <<>>, name |-> <<"a", "/", "b", ":", "c", ".mkv">>],
       nested_isdict |-> FALSE, nested |-> <<>>],
      [isdict |-> TRUE, top |-> [video_url |-> PlainMp4],
       nested_isdict |-> TRUE,
       nested |-> [url |-> PlainM3u8, filename |-> <<"Nested", ".avi">>]] }

\* Bodies the upstream is drawn from: those that vary the "key":"value" fields
\* alone, and those that vary every other feature around at most one field.
QualityBodies ==
    [marker : {FALSE}, json : {NotJson}, quals : FieldSeqs,
     m3u8 : {None}, mp4 : {None}]

MixedBodies ==
    [marker : BOOLEAN, json : JsonDocs,
     quals : {<<>>, <<[key |-> "480p", val |-> EscUrl("480p")]>>,
              <<[key |-> "720p", val |-> EscColonUrl("720p")]>>},
     m3u8 : {None, PlainM3u8}, mp4 : {None, PlainMp4}]

Bodies == QualityBodies \cup MixedBodies

EmptyBody == [marker |-> FALSE, json |-> NotJson, quals |-> <<>>,
              m3u8 |-> None, mp4 |-> None]

MarkerBody == [EmptyBody EXCEPT !.marker = TRUE]

RedirectTargets == { <<"https", ":", "/", "/", "cdn.example", "/", "r", "/", "clip">>,
                     <<"https", ":", "/", "/", "cdn.example", "/", "a", ":", "b", ".mp4">>,
                     <<"https", ":", "/", "/", "cdn.example", "/">> }

\* final_url = None: the response URL is the requested API URL
ApiResponses ==
    [status : {200}, final_url : {None}, body : Bodies] \cup
    [status : {404, 403, 520, 500}, final_url : {None} \cup RedirectTargets,
     body : {EmptyBody, MarkerBody}]

PageBodies == { b \in Bodies : ~b.marker /\ b.json = NotJson }

PageResponses ==
    [status : {200}, body : PageBodies] \cup [status : {404}, body : {EmptyBody}]

NoResp == [status |-> 0, final_url |-> None, body |-> EmptyBody]

NoPage == [status |-> 0, body |-> EmptyBody]

(***************************************************************************)
(* fetch_stream_url: the extraction heuristics.                            *)
(***************************************************************************)
NoMatch == [via |-> "none", url |-> None, filename |-> None]

\* mutant: a server error retried like an anti-bot page
AntiBotOrServerError(r) == r.status \in {403, 520, 500} \/ r.body.marker

\* line 71: status in (403, 520) or 'Bot Verification' in peek or 'recaptcha' in peek.lower()
AntiBot(r) == r.status \in {403, 520} \/ r.body.marker

\* mutant: the URL keys tried in the reverse order
JsonUrlKeysReversed == <<"video_url", "play_url", "stream_url", "url">>

\* lines 113 and 120
JsonUrlKeys == <<"url", "stream_url", "play_url", "video_url">>

JsonNameKeys == <<"filename", "title", "name">>

\* "for key in keys: if key in d and d[key]: x = d[key]; break"
RECURSIVE FirstKey(_, _, _)
FirstKey(d, keys, i) ==
    IF i > Len(keys) THEN None
    ELSE IF keys[i] \in DOMAIN d /\ d[keys[i]] # <<>> THEN d[keys[i]]
         ELSE FirstKey(d, keys, i + 1)

JsonLookup(j, keys) ==
    LET top == FirstKey(j.top, keys, 1)
    IN  IF top = None /\ j.nested_isdict THEN FirstKey(j.nested, keys, 1) ELSE top

JsonExtract(j) ==
    IF ~j.isdict THEN NoMatch
    ELSE LET found == JsonLookup(j, JsonUrlKeys)
             title == JsonLookup(j, JsonNameKeys)
             named == OrElse(OrElse(title, Basename(UrlPath(found))), DefaultFilename)
             clean == StripIllegal(named)
         IN  IF found = None THEN NoMatch
             ELSE [via |-> "json", url |-> found,
                   filename |-> IF EndsWithMediaExt(clean) THEN clean
                                ELSE clean \o <<".mp4">>]

\* mutant: the labels searched from the highest resolution down
ResolutionsHighestFirst == <<"1080p", "720p", "480p", "360p", "playUrl">>

\* lines 150 and 206: the order in which the resolution labels are searched
Resolutions == <<"360p", "480p", "720p", "1080p", "playUrl">>

\* re.search(rf'"{resolution}"\s*:\s*"([^"]+)"', text): group 1 of the first match
RECURSIVE SearchField(_, _, _)
SearchField(quals, resolution, i) ==
    IF i > Len(quals) THEN None
    ELSE IF quals[i].key = resolution /\ quals[i].val # <<>> THEN quals[i].val
         ELSE SearchField(quals, resolution, i + 1)

RECURSIVE QualityExtract(_, _, _)
QualityExtract(quals, prefix, i) ==
    IF i > Len(Resolutions) THEN NoMatch
    ELSE LET m == SearchField(quals, Resolutions[i], 1)
         IN  IF m # None
             THEN [via |-> "quality", url |-> UnescapeSlash(m),
                   filename |-> <<prefix, Resolutions[i], ".mp4">>]
             ELSE QualityExtract(quals, prefix, i + 1)

M3u8Extract(body) ==
    IF body.m3u8 = None THEN NoMatch
    ELSE [via |-> "m3u8", url |-> UnescapeColon(UnescapeSlash(body.m3u8)),
          filename |-> DefaultFilename]

Mp4Extract(body) ==
    IF body.mp4 = None THEN NoMatch
    ELSE LET found == UnescapeColon(UnescapeSlash(body.mp4))
         IN  [via |-> "mp4", url |-> found,
              filename |-> OrElse(Basename(UrlPath(found)), DefaultFilename)]

\* mutant: the playlist pattern tried before the resolution-keyed one
TextExtractPlaylistFirst(body, prefix) ==
    LET q == QualityExtract(body.quals, prefix, 1)
        h == M3u8Extract(body)
        v == Mp4Extract(body)
    IN  IF h.via # "none" THEN h
        ELSE IF q.via # "none" THEN q
        ELSE v

\* the three text patterns, first match wins
TextExtract(body, prefix) ==
    LET q == QualityExtract(body.quals, prefix, 1)
        h == M3u8Extract(body)
        v == Mp4Extract(body)
    IN  IF q.via # "none" THEN q
        ELSE IF h.via # "none" THEN h
        ELSE v

ApiPrefix == "terabox_video_"

PagePrefix == "@AdultsVideoLink_"

NoneNone == [exc |-> "", url |-> None, filename |-> None]

Returned(url, name) == [exc |-> "", url |-> url, filename |-> name]

Raised(msg) == [exc |-> msg, url |-> None, filename |-> None]

\* lines 245-250: "except asyncio.TimeoutError" and "except Exception" both
\* log and return (None, None)
ExceptHandlers(o) == IF o.exc # "" THEN NoneNone ELSE o

\* lines 237-243: the end of the loop body, every avenue exhausted
Exhausted(abd) == IF abd THEN Raised("anti-bot-detected") ELSE NoneNone

(***************************************************************************)
(* fetch_stream_url: the steps.                                            *)
(***************************************************************************)
RInit ==
    /\ rpc = "start"
    /\ attempt = 0
    /\ anti_bot_detected = FALSE
    /\ api_requests = 0
    /\ api_responses = 0
    /\ page_requests = 0
    /\ api_resp = NoResp
    /\ page_resp = NoPage
    /\ ret = NoneNone
    /\ via = "pending"
    /\ observed = "pending"

\* line 63, first iteration: the API GET is issued
ApiRequest ==
    /\ rpc = "start"
    /\ rpc' = "api_wait"
    /\ api_requests' = api_requests + 1
    /\ UNCHANGED <<attempt, anti_bot_detected, api_responses, page_requests,
                   api_resp, page_resp, ret, via, observed, fvars, nvars, bvars>>

Return(o, how) ==
    /\ rpc' = "returned"
    /\ ret' = ExceptHandlers(o)
    /\ via' = how

\* mutant: a redirected response is not followed
NonOkOutcomeIgnoresRedirect(r) == NoneNone

\* lines 90-97: a status other than 200 and 404; the response URL is compared
\* with the requested one as text (final_url = None when they are equal)
NonOkOutcome(r) ==
    IF r.final_url # None
    THEN Returned(r.final_url, OrElse(Basename(UrlPath(r.final_url)), DefaultFilename))
    ELSE NoneNone

\* lines 86-200 for a response the loop did not "continue" on
AfterPeek(r) ==
    IF r.status = 404 THEN
        /\ Return(NoneNone, "404")
        /\ UNCHANGED page_requests
    ELSE IF r.status # 200 THEN
        /\ Return(NonOkOutcome(r), IF r.final_url # None THEN "redirect" ELSE "status")
        /\ UNCHANGED page_requests
    ELSE LET j == JsonExtract(r.body.json)
             t == TextExtract(r.body, ApiPrefix)
         IN  IF j.via # "none" THEN
                 /\ Return(Returned(j.url, j.filename), "json")
                 /\ UNCHANGED page_requests
             ELSE IF t.via # "none" THEN
                 /\ Return(Returned(t.url, t.filename), t.via)
                 /\ UNCHANGED page_requests
             ELSE
                 /\ rpc' = "page_wait"
                 /\ page_requests' = page_requests + 1
                 /\ UNCHANGED <<ret, via>>

\* lines 63-200: an API response arrives
ApiResponse ==
    /\ rpc = "api_wait"
    /\ \E r \in ApiResponses :
        /\ api_resp' = r
        /\ api_responses' = api_responses + 1
        /\ anti_bot_detected' = (anti_bot_detected \/ AntiBot(r))
        /\ IF AntiBot(r) /\ attempt = 0
           THEN \* sleep(1); continue: the second iteration issues the GET again
                /\ attempt' = 1
                /\ api_requests' = api_requests + 1
                /\ UNCHANGED <<rpc, page_requests, ret, via>>
           ELSE /\ AfterPeek(r)
                /\ UNCHANGED <<attempt, api_requests>>
    /\ UNCHANGED <<page_resp, observed, fvars, nvars, bvars>>

\* line 63 raises (timeout, connection error): lines 245-250
ApiError ==
    /\ rpc = "api_wait"
    /\ Return(Raised("ClientError"), "exception")
    /\ UNCHANGED <<attempt, anti_bot_detected, api_requests, api_responses,
                   page_requests, api_resp, page_resp, observed, fvars, nvars, bvars>>

\* lines 200-243: the source page answers
PageResponse ==
    /\ rpc = "page_wait"
    /\ \E p \in PageResponses :
        /\ page_resp' = p
        /\ LET t == IF p.status = 200 THEN TextExtract(p.body, PagePrefix) ELSE NoMatch
           IN  IF t.via # "none"
               THEN Return(Returned(t.url, t.filename), "page-" \o t.via)
               ELSE Return(Exhausted(anti_bot_detected), "exhausted")
    /\ UNCHANGED <<attempt, anti_bot_detected, api_requests, api_responses,
                   page_requests, api_resp, observed, fvars, nvars, bvars>>

\* line 200 raises: caught at line 234, then lines 237-243
PageError ==
    /\ rpc = "page_wait"
    /\ Return(Exhausted(anti_bot_detected), "exhausted")
    /\ UNCHANGED <<attempt, anti_bot_detected, api_requests, api_responses,
                   page_requests, api_resp, page_resp, observed, fvars, nvars, bvars>>

\* process_terabox_link lines 423-426 and handle_link lines 271-299: what the
\* caller makes of fetch_stream_url's result
Observe(o) ==
    IF o.exc = "anti-bot-detected" THEN "anti-bot-detected"
    ELSE IF o.exc # "" THEN "error"
    ELSE IF o.url = None THEN "resolution-failed"
    ELSE "resolved"

HandleLinkObserves ==
    /\ rpc = "returned"
    /\ rpc' = "observed"
    /\ observed' = Observe(ret)
    /\ UNCHANGED <<attempt, anti_bot_detected, api_requests, api_responses,
                   page_requests, api_resp, page_resp, ret, via, fvars, nvars, bvars>>

(***************************************************************************)
(* download_video: configuration, inputs and the download directory.       *)
(***************************************************************************)
Calls == {1, 2}

\* config.MAX_FILE_SIZE = int(os.getenv("MAX_FILE_SIZE", 2147483648)): a
\* deployment that sets the variable to 200000 bytes (the default of 2 GiB is
\* beyond the integers TLC computes with)
MAX_FILE_SIZE == 200000

\* response.content.iter_chunked(65536)
CHUNK == 65536

\* response.content_length when the header is absent
Absent == -1

StreamUrls == {PlainMp4, PlainM3u8}

Filenames == {DefaultFilename, <<"My Clip", ".mp4">>}

\* the filenames fetch_stream_url can hand to download_video
ResolvedFilenames ==
    ( { JsonExtract(b.json).filename : b \in Bodies } \cup
      { TextExtract(b, prefix).filename : b \in Bodies, prefix \in {ApiPrefix, PagePrefix} } \cup
      { OrElse(Basename(UrlPath(t)), DefaultFilename) : t \in RedirectTargets } ) \ {None}

\* the names under config.DOWNLOAD_DIR the model distinguishes
Paths == Filenames \cup ResolvedFilenames

\* Content-Length headers the stream server is drawn from
ContentLengths == {Absent, 0, 10, 999, 1000, CHUNK + 1000, MAX_FILE_SIZE + 1}

\* body sizes of a response without Content-Length
ChunkedSizes == {0, 999, 1000, CHUNK + 1000, MAX_FILE_SIZE + 1}

StreamStatuses == {200, 403}

\* sizes of one write of ffmpeg to its output
FfWriteSizes == {1, 99999}

\* mutant: every call writes the same fixed path
FilePathFixed(c) == DefaultFilename

\* line 262: file_path = os.path.join(config.DOWNLOAD_DIR, filename); a path is
\* identified by the file name under the download directory
FilePath(c) == filename[c]

\* line 267
IsM3u8(url) == \E i \in 1..Len(url) : url[i] \in {".m3u8", "playlist"}

\* os.path.exists(file_path)
Exists(path) == fs[path] # 0

\* "if os.path.exists(file_path): os.remove(file_path)": the directory afterwards
Removed(path) == [fs EXCEPT ![path] = 0]

\* open(file_path, 'wb') by invocation c: the inode the handle refers to.  An
\* existing file is truncated in place, a missing one is created.
OpenInode(c, path) == IF fs[path] # 0 THEN fs[path] ELSE c

\* mutant: the limit compared off by one
OversizeOffByOne(cl) == cl # Absent /\ cl # 0 /\ cl > MAX_FILE_SIZE + 1

\* line 316: if content_length and content_length > config.MAX_FILE_SIZE
Oversize(cl) == cl # Absent /\ cl # 0 /\ cl > MAX_FILE_SIZE

\* mutant: a file of exactly 1000 bytes rejected too
TooSmallDirectInclusive(size) == size <= 1000

\* line 333: if file_size < 1000
TooSmallDirect(size) == size < 1000

\* mutant: a file of exactly 100000 bytes rejected too
TooSmallM3u8Inclusive(size) == size <= 100000

\* line 391: if file_size < 100000
TooSmallM3u8(size) == size < 100000

Max(a, b) == IF a >= b THEN a ELSE b

Min(a, b) == IF a <= b THEN a ELSE b

FInit ==
    /\ pc = [c \in Calls |-> "idle"]
    /\ stream_url = [c \in Calls |-> None]
    /\ filename = [c \in Calls |-> None]
    /\ stream_status = [c \in Calls |-> 0]
    /\ content_length = [c \in Calls |-> Absent]
    /\ body_size = [c \in Calls |-> 0]
    /\ body_left = [c \in Calls |-> 0]
    /\ fd = [c \in Calls |-> 0]
    /\ downloaded_size = [c \in Calls |-> 0]
    /\ streamed_all = [c \in Calls |-> FALSE]
    /\ opens = [c \in Calls |-> 0]
    /\ file_size = [c \in Calls |-> 0]
    /\ result = [c \in Calls |-> None]
    /\ reason = [c \in Calls |-> "pending"]
    /\ prior = [c \in Calls |-> {}]
    /\ ff = [c \in Calls |-> "none"]
    /\ ff_ino = [c \in Calls |-> 0]
    /\ ff_off = [c \in Calls |-> 0]
    /\ ff_writes = [c \in Calls |-> 0]
    /\ returncode = [c \in Calls |-> 0]
    /\ fs = [f \in Paths |-> 0]
    /\ isize = [i \in Calls |-> 0]

\* the invocation returns: "return None" or "return file_path"
Finish(c, value, why) ==
    /\ pc' = [pc EXCEPT ![c] = "done"]
    /\ result' = [result EXCEPT ![c] = value]
    /\ reason' = [reason EXCEPT ![c] = why]

(***************************************************************************)
(* download_video and _download_direct_http.                               *)
(***************************************************************************)
\* lines 259-276 and 304-305 / 359-380: download_video(u, f) starts and reaches
\* its first await, the stream GET or the ffmpeg subprocess
StartCall(c, u, f) ==
    /\ stream_url' = [stream_url EXCEPT ![c] = u]
    /\ filename' = [filename EXCEPT ![c] = f]
    /\ IF IsM3u8(u)
       THEN /\ pc' = [pc EXCEPT ![c] = "ffmpeg"]
            /\ ff' = [ff EXCEPT ![c] = "probing"]
       ELSE /\ pc' = [pc EXCEPT ![c] = "get"]
            /\ UNCHANGED ff
    /\ prior' = [prior EXCEPT ![c] = { d \in Calls : pc[d] = "done" }]
    /\ UNCHANGED <<stream_status, content_length, body_size, body_left, fd, downloaded_size,
                   streamed_all, opens, file_size, result, reason,
                   ff_ino, ff_off, ff_writes, returncode, dvars>>

\* a call of download_video on its own
DownloadVideo(c) ==
    /\ pc[c] = "idle"
    /\ \E u \in StreamUrls, f \in Filenames : StartCall(c, u, f)
    /\ UNCHANGED <<rvars, nvars, bvars>>

\* lines 305-322: the stream response arrives; status and size checks, open()
StreamResponse(c) ==
    /\ pc[c] = "get"
    /\ \E status \in StreamStatuses, cl \in ContentLengths, chunked \in ChunkedSizes :
        LET size == IF cl = Absent THEN chunked ELSE cl
            inode == OpenInode(c, FilePath(c))
        IN  /\ cl # Absent => chunked = 0
            /\ stream_status' = [stream_status EXCEPT ![c] = status]
            /\ content_length' = [content_length EXCEPT ![c] = cl]
            /\ IF status # 200 THEN
                   /\ Finish(c, None, "bad-status")
                   /\ UNCHANGED <<body_size, body_left, fd, opens, dvars>>
               ELSE IF Oversize(cl) THEN
                   /\ Finish(c, None, "too-large")
                   /\ UNCHANGED <<body_size, body_left, fd, opens, dvars>>
               ELSE
                   /\ pc' = [pc EXCEPT ![c] = "stream"]
                   /\ body_size' = [body_size EXCEPT ![c] = size]
                   /\ body_left' = [body_left EXCEPT ![c] = size]
                   /\ fd' = [fd EXCEPT ![c] = inode]
                   /\ opens' = [opens EXCEPT ![c] = @ + 1]
                   /\ fs' = [fs EXCEPT ![FilePath(c)] = inode]
                   /\ isize' = [isize EXCEPT ![inode] = 0]
                   /\ UNCHANGED <<result, reason>>
    /\ UNCHANGED <<stream_url, filename, downloaded_size, streamed_all, file_size,
                   prior, pvars, rvars, nvars, bvars>>

\* lines 323-326: one chunk arrives and is written
StreamChunk(c) ==
    /\ pc[c] = "stream"
    /\ body_left[c] > 0
    /\ LET n == Min(CHUNK, body_left[c])
       IN  /\ isize' = [isize EXCEPT ![fd[c]] = Max(@, downloaded_size[c] + n)]
           /\ downloaded_size' = [downloaded_size EXCEPT ![c] = @ + n]
           /\ body_left' = [body_left EXCEPT ![c] = @ - n]
    /\ UNCHANGED <<pc, stream_url, filename, stream_status, content_length, body_size, fd,
                   streamed_all, opens, file_size, result, reason, prior, pvars, fs, rvars, nvars, bvars>>

\* lines 330-339, and 341-345 when getsize raises: the body ended, the file is
\* closed, measured and validated
StreamEnd(c) ==
    /\ pc[c] = "stream"
    /\ body_left[c] = 0
    /\ fd' = [fd EXCEPT ![c] = 0]
    /\ streamed_all' = [streamed_all EXCEPT ![c] = TRUE]
    /\ IF ~Exists(FilePath(c)) THEN
           /\ Finish(c, None, "exception")
           /\ UNCHANGED <<file_size, fs>>
       ELSE LET size == isize[fs[FilePath(c)]]
            IN  /\ file_size' = [file_size EXCEPT ![c] = size]
                /\ IF TooSmallDirect(size)
                   THEN /\ fs' = Removed(FilePath(c))
                        /\ Finish(c, None, "too-small")
                   ELSE /\ Finish(c, FilePath(c), "ok")
                        /\ UNCHANGED fs
    /\ UNCHANGED <<stream_url, filename, stream_status, content_length, body_size, body_left,
                   downloaded_size, opens, prior, pvars, isize, rvars, nvars, bvars>>

\* lines 341-345: the GET or the body stream raises (connection error, payload
\* error, the 600 s total timeout)
StreamError(c) ==
    /\ pc[c] \in {"get", "stream"}
    /\ \E why \in {"network", "timeout"} : Finish(c, None, why)
    /\ fd' = [fd EXCEPT ![c] = 0]
    /\ fs' = Removed(FilePath(c))
    /\ UNCHANGED <<stream_url, filename, stream_status, content_length, body_size, body_left,
                   downloaded_size, streamed_all, opens, file_size, prior, pvars,
                   isize, rvars, nvars, bvars>>

(***************************************************************************)
(* _download_m3u8_with_ffmpeg and its subprocess.                          *)
(***************************************************************************)
\* ffmpeg opens its output ("-y": an existing file is overwritten in place)
FfOpen(c) ==
    /\ ff[c] = "probing"
    /\ LET inode == OpenInode(c, FilePath(c))
       IN  /\ ff_ino' = [ff_ino EXCEPT ![c] = inode]
           /\ fs' = [fs EXCEPT ![FilePath(c)] = inode]
           /\ isize' = [isize EXCEPT ![inode] = 0]
    /\ ff' = [ff EXCEPT ![c] = "writing"]
    /\ opens' = [opens EXCEPT ![c] = @ + 1]
    /\ UNCHANGED <<pc, stream_url, filename, stream_status, content_length, body_size, body_left,
                   fd, downloaded_size, streamed_all, file_size, result, reason,
                   prior, ff_off, ff_writes, returncode, rvars, nvars, bvars>>

\* ffmpeg writes to its output; the inode grows whether or not a path names it
FfWrite(c) ==
    /\ ff[c] = "writing"
    /\ ff_writes[c] < MaxFfWrites
    /\ \E n \in FfWriteSizes :
        /\ isize' = [isize EXCEPT ![ff_ino[c]] = Max(@, ff_off[c] + n)]
        /\ ff_off' = [ff_off EXCEPT ![c] = @ + n]
    /\ ff_writes' = [ff_writes EXCEPT ![c] = @ + 1]
    /\ UNCHANGED <<cvars, ff, ff_ino, returncode, fs, rvars, nvars, bvars>>

\* ffmpeg exits: with an error at any time, with 0 after it wrote its output
FfExit(c) ==
    /\ ff[c] \in {"probing", "writing"}
    /\ \E code \in {0, 1} :
        /\ code = 0 => ff[c] = "writing"
        /\ returncode' = [returncode EXCEPT ![c] = code]
    /\ ff' = [ff EXCEPT ![c] = "exited"]
    /\ ff_ino' = [ff_ino EXCEPT ![c] = 0]
    /\ UNCHANGED <<cvars, ff_off, ff_writes, dvars, rvars, nvars, bvars>>

\* lines 380-397, and 404-408 when getsize raises: communicate() returned
FfCommunicated(c) ==
    /\ pc[c] = "ffmpeg"
    /\ ff[c] = "exited"
    /\ IF returncode[c] # 0 THEN
           /\ fs' = Removed(FilePath(c))
           /\ Finish(c, None, "ffmpeg-failed")
           /\ UNCHANGED file_size
       ELSE IF ~Exists(FilePath(c)) THEN
           /\ Finish(c, None, "exception")
           /\ UNCHANGED <<file_size, fs>>
       ELSE LET size == isize[fs[FilePath(c)]]
            IN  /\ file_size' = [file_size EXCEPT ![c] = size]
                /\ IF TooSmallM3u8(size)
                   THEN /\ fs' = Removed(FilePath(c))
                        /\ Finish(c, None, "too-small")
                   ELSE /\ Finish(c, FilePath(c), "ok")
                        /\ UNCHANGED fs
    /\ UNCHANGED <<stream_url, filename, stream_status, content_length, body_size, body_left, fd,
                   downloaded_size, streamed_all, opens, prior, pvars, isize, rvars, nvars, bvars>>

\* what the timeout handler does to the subprocess: lines 399-403 hold no
\* process.kill() or terminate(), the process is left as it is
OnTimeoutProcess(state) == state

\* lines 380 and 399-403: wait_for gives up after 600 s; communicate() is
\* cancelled, the file is removed if it exists
FfTimeout(c) ==
    /\ pc[c] = "ffmpeg"
    /\ ff[c] \in {"probing", "writing"}
    /\ fs' = Removed(FilePath(c))
    /\ ff' = [ff EXCEPT ![c] = OnTimeoutProcess(ff[c])]
    /\ Finish(c, None, "timeout")
    /\ UNCHANGED <<stream_url, filename, stream_status, content_length, body_size, body_left, fd,
                   downloaded_size, streamed_all, opens, file_size, prior,
                   ff_ino, ff_off, ff_writes, returncode, isize, rvars, nvars, bvars>>

(***************************************************************************)
(* extract_terabox_url.  A letter-case variant of a word is a token of its *)
(* own; Lower maps it to the lower-case word.  No two tokens of the        *)
(* alphabet join to a word the code searches for.                          *)
(***************************************************************************)
\* str.lower(), token by token
Lower(t) ==
    CASE t = "HTTP" -> "http"
      [] t = "HttpS" -> "https"
      [] t = "TeraBox" -> "terabox"
      [] t = "TeraBoxLink" -> "teraboxlink"
      [] t = ".COM" -> ".com"
      [] OTHER -> t

LowerAll(s) == [i \in 1..Len(s) |-> Lower(s[i])]

Whitespace == {" ", "\n"}

\* str.strip()
RECURSIVE LStrip(_)
LStrip(s) == IF Len(s) > 0 /\ s[1] \in Whitespace THEN LStrip(Tail(s)) ELSE s

RECURSIVE RStrip(_)
RStrip(s) ==
    IF Len(s) > 0 /\ s[Len(s)] \in Whitespace THEN RStrip(SubSeq(s, 1, Len(s) - 1)) ELSE s

Strip(s) == LStrip(RStrip(s))

\* str.startswith(prefix)
StartsWith(s, prefix) == Len(s) >= Len(prefix) /\ SubSeq(s, 1, Len(prefix)) = prefix

SchemePrefixes == { <<"http", ":", "/", "/">>, <<"https", ":", "/", "/">> }

\* mutant: the scheme looked for anywhere in the string
SchemeAnywhere(url) ==
    \E i \in 1..Len(url) :
        \E p \in SchemePrefixes : StartsWith(SubSeq(LowerAll(url), i, Len(url)), p)

\* line 29: url.lower().startswith(('http://', 'https://'))
SchemeOk(url) == \E p \in SchemePrefixes : StartsWith(LowerAll(url), p)

\* the words in which r'teraboxlink' matches (IGNORECASE), and what the
\* replacement leaves of them
IsAliasStem(t) == Lower(t) \in {"teraboxlink", "myteraboxlink"}

StemRewritten(t) == IF Lower(t) = "teraboxlink" THEN "terabox" ELSE "myterabox"

\* the tokens that begin with what r'\.com' matches (IGNORECASE)
IsComTail(t) == Lower(t) \in {".com", ".company"}

TailRewritten(t) == Lower(t)

\* mutant: the alias matched in lower case only
RECURSIVE ReSubAliasCaseSensitive(_)
ReSubAliasCaseSensitive(url) ==
    IF Len(url) = 0 THEN <<>>
    ELSE IF /\ Len(url) >= 2
            /\ url[1] \in {"teraboxlink", "myteraboxlink"}
            /\ url[2] \in {".com", ".company"}
         THEN <<StemRewritten(url[1]), TailRewritten(url[2])>>
                  \o ReSubAliasCaseSensitive(SubSeq(url, 3, Len(url)))
         ELSE <<url[1]>> \o ReSubAliasCaseSensitive(Tail(url))

\* line 34: re.sub(r'teraboxlink\.com', 'terabox.com', url, flags=re.IGNORECASE)
RECURSIVE ReSubAlias(_)
ReSubAlias(url) ==
    IF Len(url) = 0 THEN <<>>
    ELSE IF Len(url) >= 2 /\ IsAliasStem(url[1]) /\ IsComTail(url[2])
         THEN <<StemRewritten(url[1]), TailRewritten(url[2])>>
                  \o ReSubAlias(SubSeq(url, 3, Len(url)))
         ELSE <<url[1]>> \o ReSubAlias(Tail(url))

\* the words that hold 'terabox'
MarkerWords == {"terabox", "teraboxlink", "myterabox", "myteraboxlink", "1024terabox"}

\* mutant: the domain test dropped
AnyDomain(url) == Len(url) > 0

\* line 37: 'terabox' in url.lower()
HasMarker(url) == \E i \in 1..Len(url) : Lower(url[i]) \in MarkerWords

\* lines 26-40; None for a rejected input
extract_terabox_url(url) ==
    LET stripped == Strip(url)
        corrected == ReSubAlias(stripped)
    IN  IF ~SchemeOk(stripped) THEN None
        ELSE IF HasMarker(corrected) THEN corrected
        ELSE None

\* the strings a user sends: surrounding whitespace, a scheme or what stands
\* in its place, a host, a path
Leads == { <<>>, <<" ">>, <<"\n", " ">> }

Schemes == { <<>>,
             <<"http", ":", "/", "/">>, <<"https", ":", "/", "/">>,
             <<"HTTP", ":", "/", "/">>, <<"HttpS", ":", "/", "/">>,
             <<"ftp", ":", "/", "/">>, <<"http", ":", "/">>,
             <<"see", " ", "https", ":", "/", "/">> }

Hosts == { <<"terabox", ".com">>, <<"TeraBox", ".COM">>,
           <<"teraboxlink", ".com">>, <<"TeraBoxLink", ".COM">>,
           <<"myteraboxlink", ".company">>, <<"teraboxlink", ".org">>,
           <<"1024terabox", ".com">>, <<"example", ".com">> }

UrlPaths == { <<>>, <<"/", "s", "/", "abc123">>,
              <<"/", "?", "u", "=", "TeraBoxLink", ".com">>,
              <<"/", "terabox">> }

Trails == { <<>>, <<" ">> }

RawInputs ==
    { l \o s \o h \o p \o t : l \in Leads, s \in Schemes, h \in Hosts,
                               p \in UrlPaths, t \in Trails }

NInit ==
    /\ ppc = "off"
    /\ input_url = None
    /\ terabox_url = None
    /\ fetch_arg = None
    /\ outcome = <<None, None>>

\* a call of extract_terabox_url on its own
ExtractTeraboxUrl ==
    /\ ppc = "off"
    /\ \E raw \in RawInputs :
        /\ input_url' = raw
        /\ terabox_url' = extract_terabox_url(raw)
    /\ ppc' = "normalized"
    /\ UNCHANGED <<fetch_arg, outcome, rvars, fvars, bvars>>

(***************************************************************************)
(* process_terabox_link: validate -> fetch stream -> download.             *)
(***************************************************************************)
\* the links the pipeline is run on
Links == { <<"https", ":", "/", "/", "TeraBoxLink", ".COM", "/", "s", "/", "abc123">>,
           <<" ", "http", ":", "/", "/", "1024terabox", ".com", "/", "s", "/", "abc123">>,
           <<"terabox", ".com", "/", "s", "/", "abc123">>,
           <<"https", ":", "/", "/", "example", ".com", "/", "s", "/", "abc123">> }

\* mutant: the pair returned without the test of line 430
ProcessOutcomeUnchecked(path, name) == <<path, name>>

\* lines 430-434: (None, None) when download_video returned None
ProcessOutcome(path, name) == IF path = None THEN <<None, None>> ELSE <<path, name>>

\* mutant: the resolver is given the link as received
ResolverArgumentRaw(raw, normalized) == raw

\* line 423: fetch_stream_url(terabox_url)
ResolverArgument(raw, normalized) == normalized

\* lines 417-423 and 48-63: the link is validated; a valid one is handed to
\* fetch_stream_url, which issues the API GET
ProcessTeraboxLink ==
    /\ ppc = "off"
    /\ rpc = "start"
    /\ \E raw \in Links :
        /\ input_url' = raw
        /\ terabox_url' = extract_terabox_url(raw)
        /\ IF extract_terabox_url(raw) = None
           THEN /\ ppc' = "done"
                /\ outcome' = <<None, None>>
                /\ UNCHANGED <<rpc, api_requests, fetch_arg>>
           ELSE /\ ppc' = "resolving"
                /\ fetch_arg' = ResolverArgument(raw, extract_terabox_url(raw))
                /\ rpc' = "api_wait"
                /\ api_requests' = api_requests + 1
                /\ UNCHANGED outcome
    /\ UNCHANGED <<attempt, anti_bot_detected, api_responses, page_requests,
                   api_resp, page_resp, ret, via, observed, fvars, bvars>>

\* lines 423-426: fetch_stream_url returned no stream URL
ProcessUnresolved ==
    /\ ppc = "resolving"
    /\ rpc = "returned"
    /\ ret.url = None
    /\ ppc' = "done"
    /\ outcome' = <<None, None>>
    /\ UNCHANGED <<input_url, terabox_url, fetch_arg, rvars, fvars, bvars>>

\* lines 423-429: fetch_stream_url returned (stream_url, filename) and
\* download_video is called with them; the frame of fetch_stream_url, its
\* locals and the model's counts of its requests, is gone
ProcessResolved ==
    /\ ppc = "resolving"
    /\ rpc = "returned"
    /\ ret.url # None
    /\ ppc' = "downloading"
    /\ StartCall(1, ret.url, ret.filename)
    /\ rpc' = "gone"
    /\ attempt' = 0
    /\ anti_bot_detected' = FALSE
    /\ api_requests' = 0
    /\ api_responses' = 0
    /\ page_requests' = 0
    /\ api_resp' = NoResp
    /\ page_resp' = NoPage
    /\ via' = "pending"
    /\ UNCHANGED <<ret, observed, input_url, terabox_url, fetch_arg, outcome, bvars>>

\* lines 429-434: download_video returned
ProcessReturn ==
    /\ ppc = "downloading"
    /\ pc[1] = "done"
    /\ ppc' = "done"
    /\ outcome' = ProcessOutcome(result[1], ret.filename)
    /\ UNCHANGED <<input_url, terabox_url, fetch_arg, rvars, fvars, bvars>>

(***************************************************************************)
(* The user store (src/database.py) and the message handlers that call the *)
(* pipeline (src/handlers/bot.py).  One user.  Time is counted in whole     *)
(* days; handle_link and handle_link_from_caption run the same steps, and   *)
(* the Application (bot.py line 1104) runs one handler at a time.           *)
(***************************************************************************)
\* database.py line 254: int(os.getenv('FREE_DAILY_DOWNLOADS', 5))
FREE_DAILY_DOWNLOADS == 5

\* database.py line 252: int(os.getenv('PREMIUM_DAILY_DOWNLOADS', 100))
PREMIUM_DAILY_DOWNLOADS == 100

\* database.py line 278: '$slice': -50
HISTORY_SLICE == 50

\* bot.py line 866: timedelta(days=30)
PREMIUM_DAYS == 30

\* bot.py lines 303-305: file_size / (1024 * 1024) > 2000
MB == 1024 * 1024

TELEGRAM_LIMIT_MB == 2000

\* the days on which something happens
Instants == {0, 1, 2, 30, 31, 32}

\* distinct links in a message
LinkCounts == {1, 2}

\* sizes of the files process_terabox_link hands back
DeliveredSizes == {1000, TELEGRAM_LIMIT_MB * MB, TELEGRAM_LIMIT_MB * MB + 1}

NoUser == [present |-> FALSE]

\* database.py lines 54-66: the inserted document has no downloads_today, no
\* last_download_reset and no download_history.  A missing downloads_today
\* reads as 0 (.get(..., 0), $inc) and a missing history as [] ($push), so the
\* two are held as 0 and <<>>; a missing last_download_reset is Absent.
NewUser ==
    [present |-> TRUE, is_premium |-> FALSE, premium_until |-> Absent,
     downloads_count |-> 0, downloads_today |-> 0,
     last_download_reset |-> Absent, download_history |-> <<>>]

\* Every method below runs in "try: ... except Exception", and with
\* users_collection = None (conn = FALSE) its first statement raises.

\* database.py lines 51-77
add_user(conn, doc) == IF conn /\ ~doc.present THEN NewUser ELSE doc

\* database.py lines 100-111: $inc with upsert=True
increment_download_count(conn, doc) ==
    IF ~conn THEN doc
    ELSE [(IF doc.present THEN doc ELSE NewUser) EXCEPT !.downloads_count = @ + 1]

\* database.py lines 146-157: $set with upsert=True
set_premium(conn, doc, until) ==
    IF ~conn THEN doc
    ELSE [(IF doc.present THEN doc ELSE NewUser)
             EXCEPT !.is_premium = TRUE, !.premium_until = until]

\* database.py lines 229-242
reset_daily_quota(doc, t) ==
    [doc EXCEPT !.downloads_today = 0, !.last_download_reset = t]

\* database.py lines 203-217, for an existing user: the count and the document
\* the call leaves
get_daily_download_count(doc, t) ==
    LET last_reset == IF doc.last_download_reset = Absent THEN t
                      ELSE doc.last_download_reset
    IN  IF t - last_reset >= 1
        THEN [count |-> 0, doc |-> reset_daily_quota(doc, t)]
        ELSE [count |-> doc.downloads_today, doc |-> doc]

\* database.py lines 219-227: $inc without upsert
increment_daily_downloads(conn, doc) ==
    IF conn /\ doc.present THEN [doc EXCEPT !.downloads_today = @ + 1] ELSE doc

\* database.py lines 244-260: the return value, the locals and the document
check_quota_exceeded(conn, doc, t) ==
    IF ~conn
    THEN [exceeded |-> TRUE, daily_limit |-> Absent, current_count |-> Absent,
          doc |-> doc]
    ELSE LET user == add_user(conn, doc)
             limit == IF user.is_premium THEN PREMIUM_DAILY_DOWNLOADS
                      ELSE FREE_DAILY_DOWNLOADS
             got == get_daily_download_count(user, t)
         IN  [exceeded |-> got.count >= limit, daily_limit |-> limit,
              current_count |-> got.count, doc |-> got.doc]

\* the last n elements of s: what '$slice': -n keeps
LastN(s, n) == IF Len(s) <= n THEN s ELSE SubSeq(s, Len(s) - n + 1, Len(s))

\* database.py lines 265-270: the n-th entry stored; utcnow() grows from call
\* to call, so the timestamp is held as the number of the call
HistoryEntry(n) == [timestamp |-> n]

\* database.py lines 262-284: $push with $each and $slice, without upsert
add_to_history(conn, doc, entry) ==
    IF conn /\ doc.present
    THEN [doc EXCEPT !.download_history = LastN(Append(@, entry), HISTORY_SLICE)]
    ELSE doc

\* database.py lines 373-399
check_and_update_premium_status(conn, doc, t) ==
    IF conn /\ doc.present /\ doc.is_premium /\ doc.premium_until # Absent
       /\ t > doc.premium_until
    THEN [doc EXCEPT !.is_premium = FALSE, !.premium_until = Absent]
    ELSE doc

BInit ==
    /\ connected = FALSE
    /\ now = 0
    /\ user_doc = NoUser
    /\ history_adds = 0
    /\ bpc = "boot"
    /\ messages = 0
    /\ links = 0
    /\ link_no = 0
    /\ file_exists = FALSE
    /\ file_bytes = 0
    /\ link_result = "none"
    /\ quota_exceeded = FALSE
    /\ daily_limit = Absent
    /\ current_count = Absent
    /\ checked_at = Absent
    /\ last_denied = Absent
    /\ handed_today = 0

\* main.py lines 38-54: db.connect() succeeds or not, the bot starts either way
Initialize ==
    /\ bpc = "boot"
    /\ \E ok \in BOOLEAN : connected' = ok
    /\ bpc' = "idle"
    /\ UNCHANGED <<now, user_doc, history_adds, messages, links, link_no, file_exists,
                   file_bytes, link_result, quota_exceeded, daily_limit, current_count,
                   checked_at, last_denied, handed_today, rvars, fvars, nvars>>

\* time passes between two updates
Tick ==
    /\ bpc = "idle"
    /\ \E t \in Instants : t > now /\ now' = t
    /\ handed_today' = 0
    /\ UNCHANGED <<connected, user_doc, history_adds, bpc, messages, links, link_no,
                   file_exists, file_bytes, link_result, quota_exceeded, daily_limit,
                   current_count, checked_at, last_denied, rvars, fvars, nvars>>

\* bot.py lines 112-159
StartCommand ==
    /\ bpc = "idle"
    /\ user_doc' = check_and_update_premium_status(connected,
                                                   add_user(connected, user_doc), now)
    /\ UNCHANGED <<connected, now, history_adds, bpc, messages, links, link_no,
                   file_exists, file_bytes, link_result, quota_exceeded, daily_limit,
                   current_count, checked_at, last_denied, handed_today,
                   rvars, fvars, nvars>>

\* bot.py lines 860-879
ActivatePremium ==
    /\ bpc = "idle"
    /\ user_doc' = set_premium(connected, user_doc, now + PREMIUM_DAYS)
    /\ UNCHANGED <<connected, now, history_adds, bpc, messages, links, link_no,
                   file_exists, file_bytes, link_result, quota_exceeded, daily_limit,
                   current_count, checked_at, last_denied, handed_today,
                   rvars, fvars, nvars>>

\* bot.py lines 229-256 (434 in handle_link_from_caption) with
\* check_quota_and_download, lines 84-110: a message with n distinct links
HandleLink ==
    /\ bpc = "idle"
    /\ messages < MaxMessages
    /\ \E n \in LinkCounts :
        LET q == check_quota_exceeded(connected, user_doc, now)
        IN  /\ messages' = messages + 1
            /\ links' = n
            /\ link_no' = 0
            /\ quota_exceeded' = q.exceeded
            /\ daily_limit' = q.daily_limit
            /\ current_count' = q.current_count
            /\ checked_at' = now
            /\ IF q.exceeded
               THEN /\ user_doc' = q.doc
                    /\ last_denied' = IF last_denied = Absent THEN now ELSE last_denied
                    /\ bpc' = "idle"
               ELSE /\ user_doc' = increment_download_count(connected,
                                       increment_daily_downloads(connected, q.doc))
                    /\ last_denied' = Absent
                    /\ bpc' = "links"
    /\ UNCHANGED <<connected, now, history_adds, file_exists, file_bytes, link_result,
                   handed_today, rvars, fvars, nvars>>

\* where the "for link in links" loop stands after its k-th link
AfterLink(k) == IF k = links THEN "idle" ELSE "links"

\* bot.py lines 259-317 (438-494): the next link goes to process_terabox_link;
\* no file, or a file above the Telegram limit, which is removed
ProcessLink ==
    /\ bpc = "links"
    /\ link_no < links
    /\ link_no' = link_no + 1
    /\ handed_today' = handed_today + 1
    /\ \E size \in {0} \cup DeliveredSizes :
        IF size = 0 THEN
            /\ link_result' = "failed"
            /\ file_exists' = FALSE
            /\ file_bytes' = 0
            /\ bpc' = AfterLink(link_no + 1)
        ELSE IF size > TELEGRAM_LIMIT_MB * MB THEN
            /\ link_result' = "too-large"
            /\ file_exists' = FALSE
            /\ file_bytes' = size
            /\ bpc' = AfterLink(link_no + 1)
        ELSE
            /\ link_result' = "fetched"
            /\ file_exists' = TRUE
            /\ file_bytes' = size
            /\ bpc' = "upload"
    /\ UNCHANGED <<connected, now, user_doc, history_adds, messages, links,
                   quota_exceeded, daily_limit, current_count, checked_at, last_denied,
                   rvars, fvars, nvars>>

\* bot.py lines 319-379 (496-574): reply_video returns, then os.remove and
\* add_to_history; or it raises, and "except Exception" edits the message
Upload ==
    /\ bpc = "upload"
    /\ \E sent \in BOOLEAN :
        IF sent THEN
            /\ link_result' = "sent"
            /\ file_exists' = FALSE
            /\ user_doc' = add_to_history(connected, user_doc,
                                          HistoryEntry(history_adds + 1))
            /\ history_adds' = history_adds + 1
        ELSE
            /\ link_result' = "upload-raised"
            /\ UNCHANGED <<file_exists, user_doc, history_adds>>
    /\ bpc' = AfterLink(link_no)
    /\ UNCHANGED <<connected, now, messages, links, link_no, file_bytes,
                   quota_exceeded, daily_limit, current_count, checked_at, last_denied,
                   handed_today, rvars, fvars, nvars>>

\* a call of add_to_history on its own, for a premium user
AddToHistory ==
    /\ bpc = "idle"
    /\ connected
    /\ user_doc.present
    /\ user_doc.is_premium
    /\ history_adds < MaxHistoryAdds
    /\ user_doc' = add_to_history(connected, user_doc, HistoryEntry(history_adds + 1))
    /\ history_adds' = history_adds + 1
    /\ UNCHANGED <<connected, now, bpc, messages, links, link_no, file_exists,
                   file_bytes, link_result, quota_exceeded, daily_limit, current_count,
                   checked_at, last_denied, handed_today, rvars, fvars, nvars>>

(***************************************************************************)
(* Specifications.                                                         *)
(***************************************************************************)
Init == RInit /\ FInit /\ NInit /\ BInit

\* one call of extract_terabox_url
NormalizeNext == ExtractTeraboxUrl

SpecNormalize == Init /\ [][NormalizeNext]_vars

\* one run of fetch_stream_url, observed by its caller
RNext ==
    \/ ApiRequest
    \/ ApiResponse
    \/ ApiError
    \/ PageResponse
    \/ PageError
    \/ HandleLinkObserves

SpecResolve == Init /\ [][RNext]_vars

\* one invocation of download_video
FetchNext ==
    \/ DownloadVideo(1)
    \/ StreamResponse(1)
    \/ StreamChunk(1)
    \/ StreamEnd(1)
    \/ StreamError(1)
    \/ FfOpen(1)
    \/ FfWrite(1)
    \/ FfExit(1)
    \/ FfCommunicated(1)
    \/ FfTimeout(1)

SpecFetch == Init /\ [][FetchNext]_vars

\* two invocations of download_video, one after the other or overlapping
TwoNext ==
    \E c \in Calls :
        \/ DownloadVideo(c)
        \/ StreamResponse(c)
        \/ StreamChunk(c)
        \/ StreamEnd(c)
        \/ StreamError(c)
        \/ FfOpen(c)
        \/ FfWrite(c)
        \/ FfExit(c)
        \/ FfCommunicated(c)
        \/ FfTimeout(c)

SpecTwo == Init /\ [][TwoNext]_vars

\* one run of process_terabox_link
PipelineNext ==
    \/ ProcessTeraboxLink
    \/ ApiResponse
    \/ ApiError
    \/ PageResponse
    \/ PageError
    \/ ProcessUnresolved
    \/ ProcessResolved
    \/ StreamResponse(1)
    \/ StreamChunk(1)
    \/ StreamEnd(1)
    \/ StreamError(1)
    \/ FfOpen(1)
    \/ FfWrite(1)
    \/ FfExit(1)
    \/ FfCommunicated(1)
    \/ FfTimeout(1)
    \/ ProcessReturn

SpecPipeline == Init /\ [][PipelineNext]_vars

\* the bot: start-up, commands and messages with links
BotNext ==
    \/ Initialize
    \/ Tick
    \/ StartCommand
    \/ ActivatePremium
    \/ HandleLink
    \/ ProcessLink
    \/ Upload

SpecBot == Init /\ [][BotNext]_vars

\* the download history of a premium user
HistoryNext ==
    \/ Initialize
    \/ Tick
    \/ StartCommand
    \/ ActivatePremium
    \/ AddToHistory

SpecHistory == Init /\ [][HistoryNext]_vars

(***************************************************************************)
(* Properties of extract_terabox_url (SpecNormalize).                      *)
(***************************************************************************)
Normalized == ppc = "normalized"

\* the number of whitespace tokens s begins with
LeadingWhitespace(s) ==
    CHOOSE k \in 0..Len(s) :
        /\ \A i \in 1..k : s[i] \in Whitespace
        /\ k < Len(s) => s[k + 1] \notin Whitespace

\* the trimmed form of s starts with http:// or https://, in any letter case
Schemed(s) ==
    LET k == LeadingWhitespace(s)
    IN  /\ Len(s) >= k + 4
        /\ Lower(s[k + 1]) \in {"http", "https"}
        /\ s[k + 2] = ":" /\ s[k + 3] = "/" /\ s[k + 4] = "/"

\* the trimmed form of s starts with http:// or https:// as written
SchemedLiterally(s) == Schemed(s) /\ s[LeadingWhitespace(s) + 1] \in {"http", "https"}

\* where teraboxlink.com stands in s, in any letter case
AliasAt(s) ==
    { i \in 1..(Len(s) - 1) :
        /\ Lower(s[i]) \in {"teraboxlink", "myteraboxlink"}
        /\ Lower(s[i + 1]) \in {".com", ".company"} }

\* where terabox.com stands in s, as the rewrite writes it
CorrectedAt(s) ==
    { i \in 1..(Len(s) - 1) :
        s[i] \in {"terabox", "myterabox"} /\ s[i + 1] \in {".com", ".company"} }

\* s holds the domain marker, in any letter case
Marked(s) ==
    \E i \in 1..Len(s) :
        Lower(s[i]) \in {"terabox", "teraboxlink", "myterabox", "myteraboxlink",
                         "1024terabox"}

\* C13: an input whose trimmed form does not start with http:// or https://
\* (in any letter case) is rejected with None, whatever else it contains.
C13_NoSchemeIsInvalid ==
    (Normalized /\ ~Schemed(input_url)) => terabox_url = None

\* C13 witness: a string that names the domain and holds https:// further in
C13_Witness ==
    /\ Normalized
    /\ input_url = <<"see", " ", "https", ":", "/", "/", "terabox", ".com">>
    /\ terabox_url = None

\* C14: an input with an http:// or https:// scheme that contains the alias
\* teraboxlink.com, in any letter case, is accepted; every occurrence of the
\* alias is rewritten to terabox.com, none remains, and nothing else changes.
C14_AliasRewritten ==
    (Normalized /\ Schemed(input_url) /\ AliasAt(input_url) # {}) =>
        LET k == LeadingWhitespace(input_url)
        IN  /\ terabox_url # None
            /\ AliasAt(terabox_url) = {}
            /\ CorrectedAt(terabox_url) # {}
            /\ \A i \in AliasAt(input_url) : (i - k) \in CorrectedAt(terabox_url)
            /\ \A i \in 1..Len(terabox_url) :
                  \/ terabox_url[i] = input_url[i + k]
                  \/ (i + k) \in AliasAt(input_url)
                  \/ (i + k - 1) \in AliasAt(input_url)

\* C14 witness: the alias twice, in two letter cases, both rewritten
C14_Witness ==
    /\ Normalized
    /\ input_url = <<"https", ":", "/", "/", "TeraBoxLink", ".COM",
                     "/", "?", "u", "=", "TeraBoxLink", ".com">>
    /\ terabox_url = <<"https", ":", "/", "/", "terabox", ".com",
                       "/", "?", "u", "=", "terabox", ".com">>

\* C15 as claimed: a returned value begins with http:// or https:// as
\* written and holds the domain marker; every other input gives None.
C15_BeginsWithSchemeLiterally ==
    Normalized =>
        IF terabox_url # None
        THEN SchemedLiterally(terabox_url) /\ LeadingWhitespace(terabox_url) = 0
             /\ Marked(terabox_url)
        ELSE ~(Schemed(input_url) /\ Marked(input_url))

\* C15 as amended: a returned value begins with http:// or https:// in the
\* letter case the input had (the scheme is compared case-insensitively and
\* returned as it was written) and holds the domain marker; every input whose
\* trimmed form lacks the scheme or the marker gives None.
C15_FailsClosed ==
    Normalized =>
        IF terabox_url # None
        THEN Schemed(terabox_url) /\ LeadingWhitespace(terabox_url) = 0
             /\ Marked(terabox_url)
        ELSE ~(Schemed(input_url) /\ Marked(input_url))

\* C15 witness: an upper-case scheme accepted and returned as written
C15_Witness ==
    /\ Normalized
    /\ input_url = <<" ", "HTTP", ":", "/", "/", "TeraBox", ".COM", " ">>
    /\ terabox_url = <<"HTTP", ":", "/", "/", "TeraBox", ".COM">>

(***************************************************************************)
(* Properties of fetch_stream_url (SpecResolve).                           *)
(***************************************************************************)
Failed == rpc = "observed" /\ via = "exhausted"

\* C1: when the API response and the source-page fallback are exhausted
\* without a stream URL, the caller (process_terabox_link, handle_link)
\* observes anti-bot-detected if an anti-bot marker was seen on an API attempt,
\* an outcome distinct from resolution-failed, and resolution-failed otherwise.
\* Fails: the RuntimeError of line 240 is raised inside the try block whose
\* "except Exception" (line 248) turns it into (None, None).
C1_AntiBotObservedByCaller ==
    Failed =>
        observed = (IF anti_bot_detected THEN "anti-bot-detected"
                    ELSE "resolution-failed")

\* the unescaped form of EscUrl(k)
PlainUrl(k) == <<"https", ":", "/", "/", "cdn.example", "/", "v", k, ".mp4">>

Height(k) ==
    CASE k = "360p" -> 360 [] k = "480p" -> 480 [] k = "720p" -> 720
      [] k = "1080p" -> 1080 [] OTHER -> 0

\* EscColonUrl(k) with the slashes un-escaped and the colon left escaped
SlashOnlyUrl(k) == <<"https", BS, ":", "/", "/", "cdn.example", "/", "v", k, ".mp4">>

\* the first quoted, non-empty value of key k in body b
ValueIn(b, k) ==
    LET at == { n \in 1..Len(b.quals) : b.quals[n].key = k /\ b.quals[n].val # <<>> }
    IN  IF at = {} THEN None
        ELSE b.quals[CHOOSE n \in at : \A m \in at : n <= m].val

\* the value of key k in body b with its escaped slashes un-escaped
SlashesPlain(b, k) ==
    IF ValueIn(b, k) = EscColonUrl(k) THEN SlashOnlyUrl(k) ELSE PlainUrl(k)

\* the body the resolution-keyed heuristic matched on
SearchedBody == IF via = "quality" THEN api_resp.body ELSE page_resp.body

\* the resolution keys (not playUrl) with a quoted, non-empty value in body b
ResolutionsIn(b) ==
    { b.quals[i].key : i \in { n \in 1..Len(b.quals) :
                                b.quals[n].val # <<>> /\ Height(b.quals[n].key) > 0 } }

ByQuality == rpc \in {"returned", "observed"} /\ via \in {"quality", "page-quality"}

\* C2 as claimed: of the resolution keys with a quoted value in the body, the
\* value of the highest resolution is returned.
C2_HighestResolutionWins ==
    (ByQuality /\ ResolutionsIn(SearchedBody) # {}) =>
        \E k \in ResolutionsIn(SearchedBody) :
            /\ \A o \in ResolutionsIn(SearchedBody) : Height(o) <= Height(k)
            /\ ret.url = SlashesPlain(SearchedBody, k)

\* C2 as amended: the labels are tried from the lowest resolution up (360p,
\* 480p, 720p, 1080p, then playUrl); of the resolution keys with a quoted value
\* in the body, the value of the lowest resolution is returned, slashes
\* un-escaped, and playUrl is used only when no resolution key has a value.
C2_LowestResolutionWins ==
    ByQuality =>
        IF ResolutionsIn(SearchedBody) # {}
        THEN \E k \in ResolutionsIn(SearchedBody) :
                /\ \A o \in ResolutionsIn(SearchedBody) : Height(k) <= Height(o)
                /\ ret.url = SlashesPlain(SearchedBody, k)
        ELSE ret.url = SlashesPlain(SearchedBody, "playUrl")

\* C2 witness: a body with values for 720p and 360p, resolved to the 360p one
C2_Witness ==
    /\ ByQuality
    /\ {"720p", "360p"} \subseteq ResolutionsIn(SearchedBody)
    /\ ret.url = PlainUrl("360p")

\* the last API response is the one the code went on to examine (it did not
\* "continue" on it)
Parsed == api_responses = attempt + 1

Done == rpc \in {"returned", "observed"}

C16Keys == <<"url", "stream_url", "play_url", "video_url">>

C16Names == <<"filename", "title", "name">>

\* the value of the first of keys that level d holds non-empty, None without one
FirstPresent(d, keys) ==
    LET hits == { i \in 1..Len(keys) : keys[i] \in DOMAIN d /\ d[keys[i]] # <<>> }
    IN  IF hits = {} THEN None
        ELSE d[keys[CHOOSE i \in hits : \A o \in hits : i <= o]]

\* top level before the nested wrapper
Claimed(j, keys) ==
    IF FirstPresent(j.top, keys) # None THEN FirstPresent(j.top, keys)
    ELSE IF j.nested_isdict THEN FirstPresent(j.nested, keys)
    ELSE None

Reserved == {"<", ">", ":", "\"", "/", BS, "|", "?", "*"}

ClaimedName(title) ==
    LET clean == SelectSeq(title, LAMBDA t : t \notin Reserved)
    IN  IF clean # <<>> /\ clean[Len(clean)] \in {".mp4", ".mkv", ".avi", ".mov"}
        THEN clean ELSE clean \o <<".mp4">>

JsonAnswer ==
    /\ Done /\ Parsed /\ api_resp.status = 200
    /\ api_resp.body.json.isdict
    /\ Claimed(api_resp.body.json, C16Keys) # None

Resolved == Done /\ ret.exc = "" /\ ret.url # None

\* C17: every (stream URL, filename) fetch_stream_url returns as a success has
\* a sanitized filename: no path separator or reserved character in it, and a
\* recognized media extension at its end.
\* Fails: only the JSON branch sanitizes (lines 138-140); the redirect and
\* direct-media branches return os.path.basename of the URL path as it is.
C17_FilenameSanitized ==
    Resolved =>
        /\ \A i \in 1..Len(ret.filename) : ret.filename[i] \notin Reserved
        /\ Len(ret.filename) > 0
        /\ ret.filename[Len(ret.filename)] \in {".mp4", ".mkv", ".avi", ".mov"}

\* the heuristic that matches first on an API body, in the claimed order
QualHit(b) == \E i \in 1..Len(b.quals) : b.quals[i].val # <<>>

TextHit(b) ==
    IF QualHit(b) THEN "quality"
    ELSE IF b.m3u8 # None THEN "m3u8"
    ELSE IF b.mp4 # None THEN "mp4"
    ELSE "none"

ApiHit(b) ==
    IF b.json.isdict /\ Claimed(b.json, C16Keys) # None THEN "json" ELSE TextHit(b)

\* C18: on a status-200 API response the heuristics are tried in the order
\* JSON fields, resolution-keyed pattern, playlist pattern, direct-media
\* pattern, the first match is returned, and the source page is requested only
\* when none matched; the same three patterns then run on the page in the
\* same order.
C18_HeuristicOrder ==
    /\ (Parsed /\ api_resp.status = 200) =>
          IF ApiHit(api_resp.body) # "none"
          THEN /\ Done /\ page_requests = 0
               /\ via = ApiHit(api_resp.body)
               /\ via = "m3u8" => ret.url = api_resp.body.m3u8
               /\ via = "mp4" => ret.url = api_resp.body.mp4
          ELSE /\ page_requests = 1
               /\ rpc = "page_wait" \/ Done
               /\ (Done /\ page_resp.status = 200 /\ TextHit(page_resp.body) # "none") =>
                     /\ via = "page-" \o TextHit(page_resp.body)
                     /\ via = "page-m3u8" => ret.url = page_resp.body.m3u8
                     /\ via = "page-mp4" => ret.url = page_resp.body.mp4
    /\ page_requests > 0 =>
          (Parsed /\ api_resp.status = 200 /\ ApiHit(api_resp.body) = "none")

\* C18 witness: a body without JSON url that holds a resolution key, a playlist
\* URL and a media URL, resolved by the resolution key
C18_Witness ==
    /\ Done /\ Parsed /\ api_resp.status = 200
    /\ ~api_resp.body.json.isdict
    /\ QualHit(api_resp.body)
    /\ api_resp.body.m3u8 # None /\ api_resp.body.mp4 # None
    /\ via = "quality" /\ page_requests = 0

\* what the code takes for an anti-bot answer
Detected(r) == r.status \in {403, 520} \/ r.body.marker

\* C19: the API request is issued at most twice, the second time only after
\* the first answer was detected as anti-bot; the source page is requested at
\* most once; a finished run issued between 1 and 3 requests.
C19_RequestBudget ==
    /\ api_requests <= 2 /\ page_requests <= 1
    /\ api_requests = 2 => (attempt = 1 /\ anti_bot_detected)
    /\ (api_requests = 2 /\ api_responses = 1) => Detected(api_resp)
    /\ (api_responses >= 1 /\ attempt = 0) => api_requests = 1
    /\ Done => (api_requests + page_requests) \in 1..3

\* C19 witness: anti-bot answer, retry, then the source page: three requests
C19_Witness ==
    Done /\ api_requests = 2 /\ page_requests = 1 /\ api_responses = 2

\* C20: when both API attempts were detected as anti-bot, the source page is
\* requested before a failure is reported.
\* Fails: after the second detection the status tests of lines 86-97 still
\* run, and a 403, 520, 404 or 500 answer returns (None, None) there.
C20_FallbackBeforeFailure ==
    (Done /\ api_responses = 2 /\ Detected(api_resp) /\ ret.url = None) =>
        page_requests = 1

\* C3: an API response with status 404, whatever its body, makes
\* fetch_stream_url return (None, None) after exactly one network request: no
\* second API request, no source-page request.
\* Fails: the anti-bot test of line 71 comes before the 404 test of line 86, so
\* a 404 whose body carries a marker is retried.
C3_NotFoundIsTerminal ==
    (api_responses = 1 /\ api_resp.status = 404) =>
        /\ rpc \in {"returned", "observed"}
        /\ ret = NoneNone
        /\ api_requests = 1
        /\ page_requests = 0

\* the part of URL u after its last slash
LastSegment(u) ==
    LET slashes == { i \in 1..Len(u) : u[i] = "/" }
        last == CHOOSE i \in slashes : \A j \in slashes : j <= i
    IN  SubSeq(u, last + 1, Len(u))

\* what the claim says of a response with a status other than 200 and 404
C21Answer ==
    /\ Done
    /\ via \in {"redirect", "status"}
    /\ api_requests = api_responses
    /\ page_requests = 0
    /\ IF api_resp.final_url # None
       THEN /\ ret.exc = ""
            /\ ret.url = api_resp.final_url
            /\ ret.filename = IF LastSegment(api_resp.final_url) = <<>>
                              THEN <<"terabox_video", ".mp4">>
                              ELSE LastSegment(api_resp.final_url)
       ELSE ret = NoneNone

HasEscape(s) == \E i \in 1..(Len(s) - 1) : s[i] = BS /\ s[i + 1] \in {"/", ":"}

ByTextPattern ==
    Done /\ via \in {"quality", "m3u8", "mp4", "page-quality", "page-m3u8", "page-mp4"}

\* C22: a stream URL returned from a text-pattern heuristic (resolution-keyed,
\* playlist or direct-media pattern, on the API body or on the source page)
\* holds neither an escaped slash nor an escaped colon.
\* Fails: lines 156 and 210 un-escape the slashes of a resolution-keyed value
\* and leave its escaped colons, which lines 165-171 and 180-185 remove.
C22_NoEscapesReturned == ByTextPattern => ~HasEscape(ret.url)

(***************************************************************************)
(* Properties of download_video (SpecFetch: one invocation; SpecTwo: two). *)
(***************************************************************************)
Direct(c) == pc[c] # "idle" /\ ~IsM3u8(stream_url[c])

Segmented(c) == pc[c] # "idle" /\ IsM3u8(stream_url[c])

FailedCall(c) == pc[c] = "done" /\ result[c] = None

Succeeded(c) == pc[c] = "done" /\ result[c] # None

Running(c) == ff[c] \in {"probing", "writing"}

\* C4: after _download_m3u8_with_ffmpeg returned from a timeout, no subprocess
\* of the call is running and the target file does not exist (in every later
\* state, so it is neither created nor grown afterwards).
\* Fails: lines 399-403 remove the file and never kill the process.
C4_TimeoutEndsSubprocess ==
    \A c \in Calls :
        (pc[c] = "done" /\ reason[c] = "timeout" /\ Segmented(c)) =>
            (~Running(c) /\ ~Exists(FilePath(c)))

\* C5: after download_video ended in failure, on whichever path, no file
\* created by that call is at its target path.
\* Fails through the subprocess C4 leaves running: it creates the file after
\* the call returned None.
C5_NoFileAfterFailure ==
    \A c \in Calls :
        FailedCall(c) => ~(Exists(FilePath(c)) /\ fs[FilePath(c)] = c)

\* the inode an invocation (or its ffmpeg) has open for writing, 0 if none
WriteInode(c) == IF fd[c] # 0 THEN fd[c] ELSE ff_ino[c]

\* C6: two invocations do not collide destructively: they never write to the
\* same file, and a file returned to the caller stays as it was returned.
\* Fails: file_path is DOWNLOAD_DIR/filename with no distinguishing token.
C6_NoDestructiveCollision ==
    \A c, d \in Calls :
        c # d =>
            /\ (WriteInode(c) # 0 => WriteInode(c) # WriteInode(d))
            /\ Succeeded(c) =>
                  (Exists(result[c]) /\ isize[fs[result[c]]] = file_size[c])

\* the second fetch saw what the first one saw
StableUpstream(c, d) ==
    /\ stream_url[c] = stream_url[d]
    /\ filename[c] = filename[d]
    /\ file_size[c] = file_size[d]

\* C7: fetching the same ResolvedStream twice, the second time after the first
\* returned, yields two independent files of equal size: both exist, and the
\* second fetch did not overwrite the first file.
\* Fails: both fetches write DOWNLOAD_DIR/filename.
C7_TwoIndependentFiles ==
    \A c, d \in Calls :
        (c \in prior[d] /\ Succeeded(c) /\ Succeeded(d) /\ StableUpstream(c, d)) =>
            /\ result[c] # result[d]
            /\ Exists(result[c]) /\ Exists(result[d])
            /\ fs[result[c]] # fs[result[d]]
            /\ isize[fs[result[c]]] = isize[fs[result[d]]]

DeclaredOversize(c) ==
    Direct(c) /\ stream_status[c] = 200 /\ content_length[c] > MAX_FILE_SIZE

\* C8: a stream response that declares a Content-Length above
\* config.MAX_FILE_SIZE makes _download_direct_http fail before the file is
\* opened or a byte written, and no file of the call is in the directory.
C8_OversizeAbortsBeforeOpen ==
    \A c \in Calls :
        DeclaredOversize(c) =>
            /\ FailedCall(c)
            /\ opens[c] = 0
            /\ downloaded_size[c] = 0
            /\ ~Exists(FilePath(c))

\* C8 witness: a 200 response declaring MAX_FILE_SIZE + 1 bytes was refused
C8_Witness ==
    \E c \in Calls : DeclaredOversize(c) /\ pc[c] = "done" /\ reason[c] = "too-large"

\* C9: a status-200 body that streamed completely is rejected, and the written
\* file removed, when it has fewer than 1000 bytes; with 1000 bytes or more
\* the file is returned.
C9_DirectPlausibility ==
    \A c \in Calls :
        (Direct(c) /\ pc[c] = "done" /\ streamed_all[c]) =>
            IF body_size[c] < 1000
            THEN result[c] = None /\ ~Exists(FilePath(c))
            ELSE /\ result[c] = FilePath(c)
                 /\ Exists(FilePath(c))
                 /\ isize[fs[FilePath(c)]] = body_size[c]

\* C9 witness: a complete 999-byte body was written, measured and removed
C9_Witness ==
    \E c \in Calls :
        /\ Direct(c) /\ pc[c] = "done" /\ streamed_all[c]
        /\ body_size[c] = 999 /\ downloaded_size[c] = 999 /\ opens[c] = 1
        /\ result[c] = None /\ ~Exists(FilePath(c))

\* C10: when the remuxing subprocess has exited, a non-zero exit code, or exit
\* code 0 with an output below 100000 bytes, is a failure and the output file
\* is deleted; exit code 0 with at least 100000 bytes is returned.
C10_SegmentedPlausibility ==
    \A c \in Calls :
        (Segmented(c) /\ pc[c] = "done" /\ reason[c] # "timeout") =>
            IF returncode[c] = 0 /\ isize[c] >= 100000
            THEN result[c] = FilePath(c) /\ Exists(FilePath(c))
            ELSE result[c] = None /\ ~Exists(FilePath(c))

\* C10 witness: ffmpeg exited with 0 leaving 99999 bytes, which were removed
C10_Witness ==
    \E c \in Calls :
        /\ Segmented(c) /\ pc[c] = "done" /\ ff[c] = "exited"
        /\ returncode[c] = 0 /\ opens[c] = 1 /\ isize[c] = 99999
        /\ result[c] = None /\ ~Exists(FilePath(c))

\* C28: whenever download_video returns a file path, by the direct branch
\* (with or without a declared Content-Length) or by the ffmpeg branch, the
\* stored file is at most MAX_FILE_SIZE bytes.
\* Fails: line 316 tests the declared Content-Length only; a body sent without
\* one is written to the end whatever its size (lines 325-330), and
\* _download_m3u8_with_ffmpeg has no size test but the lower one of line 389.
C28_StoredFileWithinCeiling ==
    \A c \in Calls :
        Succeeded(c) =>
            /\ file_size[c] <= MAX_FILE_SIZE
            /\ (Exists(result[c]) /\ fs[result[c]] = c) => isize[c] <= MAX_FILE_SIZE

(***************************************************************************)
(* Properties of process_terabox_link (SpecPipeline).                      *)
(***************************************************************************)
PipelineDone == ppc = "done"

PipelineSucceeded == PipelineDone /\ outcome[1] # None

PipelineFailed == PipelineDone /\ outcome[1] = None

\* the path of a name under the download directory (names stand for paths)
UnderDownloadDir(name) == name

\* C11: when process_terabox_link returns (file_path, filename), file_path
\* is the download directory joined with that filename, the file exists, is
\* the one the call created and measured, and was opened once; a file the call
\* created is gone from the directory only when download_video failed.
C11_SuccessKeepsFile ==
    /\ PipelineSucceeded =>
          /\ outcome[2] = ret.filename
          /\ outcome[1] = UnderDownloadDir(outcome[2])
          /\ Exists(outcome[1])
          /\ fs[outcome[1]] = 1
          /\ isize[fs[outcome[1]]] = file_size[1]
          /\ opens[1] = 1
    /\ (ppc \in {"downloading", "done"} /\ opens[1] > 0 /\ ~Exists(FilePath(1))) =>
          FailedCall(1)

\* C11 witness: a link resolved through the JSON fields and downloaded
C11_Witness ==
    /\ PipelineSucceeded
    /\ outcome = << <<"My Clip", ".mp4">>, <<"My Clip", ".mp4">> >>
    /\ Exists(<<"My Clip", ".mp4">>)
    /\ file_size[1] = CHUNK + 1000

\* the spec's class of the failure a finished run ended in
FailureClass ==
    IF terabox_url = None THEN "invalid-input"
    ELSE IF pc[1] = "idle"
         THEN (IF via = "exhausted" /\ anti_bot_detected THEN "anti-bot-detected"
               ELSE "resolution-failed")
    ELSE IF reason[1] = "too-large" THEN "too-large"
    ELSE IF reason[1] = "timeout" THEN "timeout"
    ELSE "fetch-failed"

\* what line 420 returns for a rejected input
InvalidInputOutcome == <<None, None>>

\* C12 as claimed: the outcome tells the failure classes apart; a failure of
\* another class does not reach the caller as the outcome of a rejected input.
C12_FailureClassesDistinct ==
    (PipelineFailed /\ FailureClass # "invalid-input") => outcome # InvalidInputOutcome

\* C12 as amended: process_terabox_link returns (file path, filename) or the
\* untagged pair (None, None); a rejected input, a resolution failure, an
\* oversize file, a fetch failure and a timeout all reach the caller as that
\* same pair.
C12_FailuresUntagged ==
    PipelineDone =>
        IF pc[1] = "done" /\ result[1] # None
        THEN outcome = <<result[1], ret.filename>> /\ outcome[1] # None /\ outcome[2] # None
        ELSE /\ FailureClass \in {"invalid-input", "resolution-failed", "too-large",
                                  "fetch-failed", "timeout"} =>
                    outcome = <<None, None>>

\* C12 witness: an oversize stream, reported as (None, None)
C12_Witness ==
    /\ PipelineFailed
    /\ FailureClass = "too-large"
    /\ content_length[1] = MAX_FILE_SIZE + 1
    /\ outcome = <<None, None>>

\* C23: process_terabox_link runs Normalize, Resolve, Fetch as a strict chain:
\* the resolver runs only after normalization gave a URL and on that URL; the
\* fetcher runs only after the resolver returned a stream URL, and on that URL
\* and filename; once a stage failed no later stage has run and the result is
\* (None, None).
C23_StrictChain ==
    /\ (rpc # "start" \/ api_requests > 0 \/ fetch_arg # None) =>
            /\ terabox_url # None
            /\ fetch_arg = terabox_url
    /\ ppc = "resolving" => pc[1] = "idle"
    /\ pc[1] # "idle" =>
            /\ ppc \in {"downloading", "done"}
            /\ ret.exc = "" /\ ret.url # None
            /\ stream_url[1] = ret.url
            /\ filename[1] = ret.filename
    /\ (ppc = "done" /\ terabox_url = None) =>
            /\ rpc = "start" /\ api_requests = 0 /\ page_requests = 0
            /\ pc[1] = "idle"
            /\ outcome = <<None, None>>
    /\ (ppc = "done" /\ terabox_url # None /\ ret.url = None) =>
            /\ pc[1] = "idle"
            /\ outcome = <<None, None>>
    /\ (ppc = "done" /\ pc[1] = "done" /\ result[1] = None) =>
            outcome = <<None, None>>

\* C23 witness: a link that normalization rewrote went through all three
\* stages and a file came back
C23_Witness ==
    /\ ppc = "done"
    /\ input_url # terabox_url
    /\ fetch_arg = terabox_url
    /\ pc[1] = "done"
    /\ stream_url[1] = ret.url
    /\ outcome[1] # None

(***************************************************************************)
(* Properties of the user store and the handlers (SpecBot, SpecHistory).   *)
(***************************************************************************)
\* C24: the daily quota resets.  When check_quota_exceeded refused the user,
\* no message was admitted since, the limit that applies is the same and at
\* least one day has passed, the next check_quota_exceeded returns False and
\* finds the day's count at 0.
\* Fails: nothing ever writes last_download_reset but reset_daily_quota, which
\* runs only when a stored last_download_reset is a day old; without one,
\* line 208 takes utcnow() and the difference is 0 days.
C24_QuotaResets ==
    [][ (/\ connected
         /\ messages' = messages + 1
         /\ last_denied # Absent
         /\ now >= last_denied + 1
         /\ daily_limit' = daily_limit)
        => (~quota_exceeded' /\ current_count' = 0 /\ bpc' = "links") ]_vars

\* the handler has finished with a link for which a file came back
LinkFinished ==
    bpc # "upload" /\ link_result \in {"sent", "too-large", "upload-raised"}

\* C25: when the handler has finished with a link for which
\* process_terabox_link returned a file, the file does not exist any more,
\* whether the video was sent, was above the Telegram limit, or the upload
\* raised.
\* Fails: os.remove is at lines 307-310 and 361-365 (487, 557); the
\* "except Exception" of lines 370-379 (565-574) leaves the file.
C25_FileRemovedAfterDelivery == LinkFinished => ~file_exists

\* C26: with the connection to the user store failed at start-up, a message
\* with a valid link is still handed to process_terabox_link.
\* Fails: check_quota_exceeded raises on users_collection = None and its
\* "except Exception" returns True (lines 258-260), so
\* check_quota_and_download refuses every message.
C26_LinksProcessedWithoutStore ==
    (~connected /\ bpc = "idle" /\ messages > 0) => (link_no >= 1 /\ link_no = links)

\* C27: an entry add_to_history stored for a premium user is in that user's
\* download_history after any number of later calls.
\* Fails: '$slice': -50 (line 278) applies to every user.
C27_PremiumHistoryPermanent ==
    (user_doc.present /\ user_doc.is_premium) =>
        \A n \in 1..history_adds :
            \E i \in 1..Len(user_doc.download_history) :
                user_doc.download_history[i] = [timestamp |-> n]

\* C29: the links handed to process_terabox_link for a user in a day never
\* exceed that user's daily limit, also when a message holds several links.
\* Fails: the quota is tested and counted once per message (lines 254-256,
\* 104), and then every link of the message is processed (line 259).
C29_HandedWithinDailyLimit ==
    user_doc.present =>
        handed_today <= (IF user_doc.is_premium THEN 100 ELSE 5)

\* C30: check_quota_exceeded applies the premium limit only to a user whose
\* premium is still valid at the time of the check.
\* Fails: line 252 reads is_premium alone; premium_until is compared with the
\* clock only by check_and_update_premium_status, which /start calls.
C30_ExpiredPremiumHeldToFreeLimit ==
    (bpc \in {"links", "upload"} /\ daily_limit = 100) =>
        /\ user_doc.premium_until # Absent
        /\ checked_at <= user_doc.premium_until

====
